---- MODULE Spec2Model ----
(***************************************************************************)
(* Model of the EVPN gateway resource lifecycle manager (package evpn):    *)
(* the VRF and LogicalBridge handlers of the Server, the shared pagination *)
(* table, and the kernel-link / routing-daemon backends they drive.        *)
(*                                                                         *)
(* Strings that the code compares or takes apart (resource ids and names)  *)
(* are sequences of byte values, so that "<" is Go's bytewise string order *)
(* and path.Base / Sprintf are computed, not assumed.                      *)
(***************************************************************************)
EXTENDS Integers, Sequences, FiniteSets, TLC

\* ------------------------------------------------------------------ bounds
\* number of page tokens the uuid generator can hand out in one run
MaxTokens == 2
\* largest page_size a List request carries (0 selects the default)
MaxPageSize == 2

\* ---------------------------------------------------------------- strings
EmptyStr == <<>>
Slash == 47
StrVrfs == <<118, 114, 102, 115>>
StrBridges == <<98, 114, 105, 100, 103, 101, 115>>
StrVni == <<118, 110, 105>>
IdA == <<97>>
IdB == <<98>>
IdGen == <<103>>
IdBad == <<65>>

\* Go's < on strings: bytewise lexicographic, a proper prefix is smaller
RECURSIVE StrLess(_, _)
StrLess(a, b) ==
    IF b = <<>> THEN FALSE
    ELSE IF a = <<>> THEN TRUE
    ELSE IF Head(a) # Head(b) THEN Head(a) < Head(b)
    ELSE StrLess(Tail(a), Tail(b))

\* fmt.Sprintf("%d", n) for n >= 0
RECURSIVE Decimal(_)
Decimal(n) ==
    IF n < 10 THEN <<48 + n>> ELSE Decimal(n \div 10) \o <<48 + (n % 10)>>

\* path.Base for a slash separated name without trailing slash
RECURSIVE PathBase(_)
PathBase(name) ==
    IF \E i \in 1..Len(name) : name[i] = Slash
    THEN PathBase(Tail(name))
    ELSE name

resourceIDToFullName(container, resourceID) ==
    container \o <<Slash>> \o resourceID

\* fmt.Sprintf("vni%d", vni)
vxlanName(vni) == StrVni \o Decimal(vni)

\* resourceid.ValidateUserSettable: lower case letters only in this model
ValidateUserSettable(id) ==
    /\ Len(id) >= 1
    /\ \A i \in 1..Len(id) : id[i] \in 97..122

\* ------------------------------------------------------------ value sets
UserIds == {IdA}
SysIds == {IdGen}
RequestIds == UserIds \cup {EmptyStr, IdBad}
NoVni == -1
VrfVnis == {NoVni, 12, 16777212}
BridgeVnis == {NoVni, 5}
VlanIds == {10}
NoMac == 0
Macs == {1, 2}
NoToken == 0
Tokens == 1..MaxTokens
PageSizes == 0..MaxPageSize

OK == "OK"
InvalidArgument == "InvalidArgument"
NotFound == "NotFound"
AdapterError == "AdapterError"
RandError == "RandError"

VrfNames == {resourceIDToFullName(StrVrfs, id) : id \in UserIds \cup SysIds}
BridgeNames == {resourceIDToFullName(StrBridges, id) : id \in UserIds \cup SysIds}

NoObj == [name |-> EmptyStr]

\* ------------------------------------------------------------------ state
VARIABLES
    Vrfs,        \* s.Vrfs: name -> Vrf object
    Bridges,     \* s.Bridges: name -> LogicalBridge object
    Pagination,  \* s.Pagination: token -> offset
    links,       \* kernel links, by interface name
    frr,         \* VRF names whose routing-daemon configuration is applied
    resp,        \* the call that has just finished: operation, request, result
    trav,        \* a client that pages through one listing (SpecList only)
    inflight     \* handler invocations running side by side (SpecConc only)

vars == <<Vrfs, Bridges, Pagination, links, frr, resp, trav, inflight>>

NoCall == [op |-> "none"]
NoTrav == [kind |-> "none"]
NoInflight == <<>>

\* the service is between two calls: the last response has been taken
Idle == resp = NoCall

Init ==
    /\ Vrfs = <<>>
    /\ Bridges = <<>>
    /\ Pagination = <<>>
    /\ links = {}
    /\ frr = {}
    /\ resp = NoCall
    /\ trav = NoTrav
    /\ inflight = NoInflight

\* map helpers: Go map insert and delete
MapPut(m, k, v) == [x \in DOMAIN m \cup {k} |-> IF x = k THEN v ELSE m[x]]
MapDel(m, k) == [x \in DOMAIN m \ {k} |-> m[x]]

\* one backend adapter call of a handler, with the error it returned
Did(call, err) == [call |-> call, err |-> err]

\* the record of a finished call
Reply(op, in, code, obj, calls) ==
    [op |-> op, in |-> in, code |-> code, obj |-> obj,
     page |-> <<>>, token |-> NoToken, calls |-> calls]

\* --------------------------------------------------------------- backends
\* kernel-link adapter: each operation yields an error code and the links left
LinkByName(name, fail) ==
    IF fail \/ name \notin links THEN NotFound ELSE OK

LinkAdd(name, fail) ==
    IF fail \/ name \in links
    THEN [err |-> AdapterError, links |-> links]
    ELSE [err |-> OK, links |-> links \cup {name}]

LinkDel(name, fail) ==
    IF fail \/ name \notin links
    THEN [err |-> AdapterError, links |-> links]
    ELSE [err |-> OK, links |-> links \ {name}]

LinkModify(fail) == IF fail THEN AdapterError ELSE OK

netlinkCreateVrf(resourceID, fail) == LinkAdd(resourceID, fail)

netlinkDeleteVrf(obj, fail) == LinkDel(PathBase(obj.name), fail)

\* routing-daemon adapter: error code and the set of configured VRFs left
frrCreateVrfRequest(name, fail) ==
    IF fail THEN [err |-> AdapterError, frr |-> frr]
    ELSE [err |-> OK, frr |-> frr \cup {name}]

frrDeleteVrfRequest(obj, fail) ==
    IF fail THEN [err |-> AdapterError, frr |-> frr]
    ELSE [err |-> OK, frr |-> frr \ {obj.name}]

generateRandMAC(mac, fail) ==
    IF fail THEN [err |-> RandError, mac |-> NoMac] ELSE [err |-> OK, mac |-> mac]

\* which step of a call the environment makes fail
CreateVrfFaults == {"none", "rand", "netlink", "frr"}
DeleteVrfFaults == {"none", "netlink", "frr"}
UpdateFaults == {"none", "lookup", "modify"}
GetFaults == {"none", "lookup"}
BridgeFaults == {"none", "netlink"}

\* -------------------------------------------------------------------- VRF
\* the name field left as the client sent it
AssignNameKept(obj, name) == obj

\* in.Vrf.Name = resourceIDToFullName("vrfs", resourceID)
AssignName(obj, name) == [obj EXCEPT !.name = name]

Vrf(name, vni, status) == [name |-> name, spec |-> [vni |-> vni], status |-> status]

VrfStatus(localAs, routingTable, rmac) ==
    [localAs |-> localAs, routingTable |-> routingTable, rmac |-> rmac]

NoVrfStatus == VrfStatus(0, 0, NoMac)

CreateVrfRequests ==
    [VrfId : RequestIds, Vrf : {Vrf(EmptyStr, v, NoVrfStatus) : v \in VrfVnis} \cup {NoObj}]

validateCreateVrfRequest(in) ==
    IF in.Vrf = NoObj THEN InvalidArgument
    ELSE IF in.VrfId # EmptyStr /\ ~ValidateUserSettable(in.VrfId) THEN InvalidArgument
    ELSE OK

\* resourceid.NewSystemGenerated: a uuid names nothing that exists
FreshVrfId(id) ==
    /\ resourceIDToFullName(StrVrfs, id) \notin DOMAIN Vrfs
    /\ id \notin links

\* the idempotency probe left out
VrfExistsNever(name) == FALSE

VrfExists(name) == name \in DOMAIN Vrfs

\* the table base taken as 1000 for every VRF
tableIDOfBase(vni) ==
    IF vni # NoVni THEN 1000 + (vni % 10) ELSE 1000

\* uint32(1001 + math.Mod(float64(*vni), 10.0)): float64 holds every uint32
\* exactly, the remainder is exact, and the sum is at most 1010, so neither
\* the float arithmetic nor the conversion back to uint32 loses anything
tableIDOf(vni) ==
    IF vni # NoVni THEN 1001 + (vni % 10) ELSE 1000

CreateVrfStatus(tableID, mac) == VrfStatus(4, tableID, mac)

\* the error of a configuration step of CreateVrf not looked at
CreateStepFailedIgnored(err) == FALSE

CreateStepFailed(err) == err # OK

CreateVrf(in, genID, macDraw, fault) ==
    LET verr == validateCreateVrfRequest(in) IN
    IF verr # OK
    THEN /\ resp' = Reply("CreateVrf", in, verr, NoObj, <<>>)
         /\ UNCHANGED <<Vrfs, Bridges, Pagination, links, frr>>
    ELSE
    LET resourceID == IF in.VrfId # EmptyStr THEN in.VrfId ELSE genID
        name == resourceIDToFullName(StrVrfs, resourceID)
        req == [in EXCEPT !.Vrf = AssignName(in.Vrf, name)]
    IN
    /\ in.VrfId = EmptyStr => FreshVrfId(genID)
    /\ IF VrfExists(name)
       THEN /\ resp' = Reply("CreateVrf", req, OK, Vrfs[name], <<>>)
            /\ UNCHANGED <<Vrfs, Bridges, Pagination, links, frr>>
       ELSE
       LET tableID == tableIDOf(req.Vrf.spec.vni)
           rnd == generateRandMAC(macDraw, fault = "rand")
           nl == netlinkCreateVrf(resourceID, fault = "netlink")
           fr == frrCreateVrfRequest(name, fault = "frr")
           response == [req.Vrf EXCEPT !.status = CreateVrfStatus(tableID, rnd.mac)]
       IN
       IF rnd.err # OK
       THEN /\ resp' = Reply("CreateVrf", req, rnd.err, NoObj, <<>>)
            /\ UNCHANGED <<Vrfs, Bridges, Pagination, links, frr>>
       ELSE IF CreateStepFailed(nl.err)
       THEN /\ resp' = Reply("CreateVrf", req, nl.err, NoObj, <<Did("LinkAdd", nl.err)>>)
            /\ UNCHANGED <<Vrfs, Bridges, Pagination, links, frr>>
       ELSE IF CreateStepFailed(fr.err)
       THEN /\ resp' = Reply("CreateVrf", req, fr.err, NoObj, <<Did("LinkAdd", nl.err), Did("FrrCreate", fr.err)>>)
            /\ links' = nl.links
            /\ UNCHANGED <<Vrfs, Bridges, Pagination, frr>>
       ELSE /\ resp' = Reply("CreateVrf", req, OK, response, <<Did("LinkAdd", nl.err), Did("FrrCreate", fr.err)>>)
            /\ links' = nl.links
            /\ frr' = fr.frr
            /\ Vrfs' = MapPut(Vrfs, name, response)
            /\ UNCHANGED <<Bridges, Pagination>>

DeleteVrfRequests == [Name : VrfNames \cup {EmptyStr}, AllowMissing : BOOLEAN]

\* required field and resource name syntax
validateDeleteVrfRequest(in) ==
    IF in.Name = EmptyStr THEN InvalidArgument ELSE OK

\* the allow-missing flag not consulted
DeleteMissingStrict(allowMissing) == NotFound

DeleteMissing(allowMissing) == IF allowMissing THEN OK ELSE NotFound

\* an adapter error that is not looked at
AdapterFailedIgnored(err) == FALSE

AdapterFailed(err) == err # OK

\* the store entry removed before the routing-daemon teardown is tried
DeleteVrfEager(in, fault) ==
    LET verr == validateDeleteVrfRequest(in) IN
    IF verr # OK
    THEN /\ resp' = Reply("DeleteVrf", in, verr, NoObj, <<>>)
         /\ UNCHANGED <<Vrfs, Bridges, Pagination, links, frr>>
    ELSE IF in.Name \notin DOMAIN Vrfs
    THEN /\ resp' = Reply("DeleteVrf", in, DeleteMissing(in.AllowMissing), NoObj, <<>>)
         /\ UNCHANGED <<Vrfs, Bridges, Pagination, links, frr>>
    ELSE
    LET obj == Vrfs[in.Name]
        nl == netlinkDeleteVrf(obj, fault = "netlink")
        fr == frrDeleteVrfRequest(obj, fault = "frr")
    IN
    IF AdapterFailed(nl.err)
    THEN /\ resp' = Reply("DeleteVrf", in, nl.err, NoObj, <<Did("LinkDel", nl.err)>>)
         /\ UNCHANGED <<Vrfs, Bridges, Pagination, links, frr>>
    ELSE /\ resp' = Reply("DeleteVrf", in, fr.err, NoObj, <<Did("LinkDel", nl.err), Did("FrrDelete", fr.err)>>)
         /\ links' = nl.links
         /\ frr' = fr.frr
         /\ Vrfs' = MapDel(Vrfs, obj.name)
         /\ UNCHANGED <<Bridges, Pagination>>

DeleteVrf(in, fault) ==
    LET verr == validateDeleteVrfRequest(in) IN
    IF verr # OK
    THEN /\ resp' = Reply("DeleteVrf", in, verr, NoObj, <<>>)
         /\ UNCHANGED <<Vrfs, Bridges, Pagination, links, frr>>
    ELSE IF in.Name \notin DOMAIN Vrfs
    THEN /\ resp' = Reply("DeleteVrf", in, DeleteMissing(in.AllowMissing), NoObj, <<>>)
         /\ UNCHANGED <<Vrfs, Bridges, Pagination, links, frr>>
    ELSE
    LET obj == Vrfs[in.Name]
        nl == netlinkDeleteVrf(obj, fault = "netlink")
        fr == frrDeleteVrfRequest(obj, fault = "frr")
    IN
    IF AdapterFailed(nl.err)
    THEN /\ resp' = Reply("DeleteVrf", in, nl.err, NoObj, <<Did("LinkDel", nl.err)>>)
         /\ UNCHANGED <<Vrfs, Bridges, Pagination, links, frr>>
    ELSE IF AdapterFailed(fr.err)
    THEN /\ resp' = Reply("DeleteVrf", in, fr.err, NoObj, <<Did("LinkDel", nl.err), Did("FrrDelete", fr.err)>>)
         /\ links' = nl.links
         /\ UNCHANGED <<Vrfs, Bridges, Pagination, frr>>
    ELSE /\ resp' = Reply("DeleteVrf", in, OK, NoObj, <<Did("LinkDel", nl.err), Did("FrrDelete", fr.err)>>)
         /\ links' = nl.links
         /\ frr' = fr.frr
         /\ Vrfs' = MapDel(Vrfs, obj.name)
         /\ UNCHANGED <<Bridges, Pagination>>

UpdateVrfRequests ==
    [Vrf : {Vrf(n, v, NoVrfStatus) : n \in VrfNames, v \in VrfVnis} \cup {NoObj}]

validateUpdateVrfRequest(in) ==
    IF in.Vrf = NoObj THEN InvalidArgument ELSE OK

\* a link lookup whose error is not looked at
LookupFailedIgnored(err) == FALSE

LookupFailed(err) == err # OK

UpdateVrfStatus == VrfStatus(4, 0, NoMac)

\* a missing name created by the update (the allow-missing behaviour of the
\* TODO, taken unconditionally)
UpdateVrfUpsert(in, fault) ==
    LET verr == validateUpdateVrfRequest(in) IN
    IF verr # OK
    THEN /\ resp' = Reply("UpdateVrf", in, verr, NoObj, <<>>)
         /\ UNCHANGED <<Vrfs, Bridges, Pagination, links, frr>>
    ELSE IF in.Vrf.name \notin DOMAIN Vrfs
    THEN /\ resp' = Reply("UpdateVrf", in, OK, [in.Vrf EXCEPT !.status = UpdateVrfStatus], <<>>)
         /\ Vrfs' = MapPut(Vrfs, in.Vrf.name, [in.Vrf EXCEPT !.status = UpdateVrfStatus])
         /\ UNCHANGED <<Bridges, Pagination, links, frr>>
    ELSE
    LET vrf == Vrfs[in.Vrf.name]
        resourceID == PathBase(vrf.name)
        lerr == LinkByName(resourceID, fault = "lookup")
        merr == LinkModify(fault = "modify")
        response == [in.Vrf EXCEPT !.status = UpdateVrfStatus]
    IN
    IF LookupFailed(lerr)
    THEN /\ resp' = Reply("UpdateVrf", in, NotFound, NoObj, <<Did("LinkByName", lerr)>>)
         /\ UNCHANGED <<Vrfs, Bridges, Pagination, links, frr>>
    ELSE IF merr # OK
    THEN /\ resp' = Reply("UpdateVrf", in, merr, NoObj, <<Did("LinkByName", lerr), Did("LinkModify", merr)>>)
         /\ UNCHANGED <<Vrfs, Bridges, Pagination, links, frr>>
    ELSE /\ resp' = Reply("UpdateVrf", in, OK, response, <<Did("LinkByName", lerr), Did("LinkModify", merr)>>)
         /\ Vrfs' = MapPut(Vrfs, in.Vrf.name, response)
         /\ UNCHANGED <<Bridges, Pagination, links, frr>>

UpdateVrf(in, fault) ==
    LET verr == validateUpdateVrfRequest(in) IN
    IF verr # OK
    THEN /\ resp' = Reply("UpdateVrf", in, verr, NoObj, <<>>)
         /\ UNCHANGED <<Vrfs, Bridges, Pagination, links, frr>>
    ELSE IF in.Vrf.name \notin DOMAIN Vrfs
    THEN /\ resp' = Reply("UpdateVrf", in, NotFound, NoObj, <<>>)
         /\ UNCHANGED <<Vrfs, Bridges, Pagination, links, frr>>
    ELSE
    LET vrf == Vrfs[in.Vrf.name]
        resourceID == PathBase(vrf.name)
        lerr == LinkByName(resourceID, fault = "lookup")
        merr == LinkModify(fault = "modify")
        response == [in.Vrf EXCEPT !.status = UpdateVrfStatus]
    IN
    IF LookupFailed(lerr)
    THEN /\ resp' = Reply("UpdateVrf", in, NotFound, NoObj, <<Did("LinkByName", lerr)>>)
         /\ UNCHANGED <<Vrfs, Bridges, Pagination, links, frr>>
    ELSE IF merr # OK
    THEN /\ resp' = Reply("UpdateVrf", in, merr, NoObj, <<Did("LinkByName", lerr), Did("LinkModify", merr)>>)
         /\ UNCHANGED <<Vrfs, Bridges, Pagination, links, frr>>
    ELSE /\ resp' = Reply("UpdateVrf", in, OK, response, <<Did("LinkByName", lerr), Did("LinkModify", merr)>>)
         /\ Vrfs' = MapPut(Vrfs, in.Vrf.name, response)
         /\ UNCHANGED <<Bridges, Pagination, links, frr>>

GetVrfRequests == [Name : VrfNames \cup {EmptyStr}]

validateGetVrfRequest(in) ==
    IF in.Name = EmptyStr THEN InvalidArgument ELSE OK

\* the live view written into the stored object instead of a new one
GetVrfInPlace(in, fault) ==
    LET verr == validateGetVrfRequest(in) IN
    /\ UNCHANGED <<Bridges, Pagination, links, frr>>
    /\ IF verr # OK
       THEN resp' = Reply("GetVrf", in, verr, NoObj, <<>>) /\ UNCHANGED Vrfs
       ELSE IF in.Name \notin DOMAIN Vrfs
       THEN resp' = Reply("GetVrf", in, NotFound, NoObj, <<>>) /\ UNCHANGED Vrfs
       ELSE
       LET obj == Vrfs[in.Name]
           lerr == LinkByName(PathBase(obj.name), fault = "lookup")
       IN
       IF LookupFailed(lerr)
       THEN resp' = Reply("GetVrf", in, NotFound, NoObj, <<Did("LinkByName", lerr)>>) /\ UNCHANGED Vrfs
       ELSE /\ Vrfs' = [Vrfs EXCEPT ![in.Name].status = VrfStatus(77, 0, NoMac)]
            /\ resp' = Reply("GetVrf", in, OK, Vrfs'[in.Name], <<Did("LinkByName", lerr)>>)

GetVrf(in, fault) ==
    LET verr == validateGetVrfRequest(in) IN
    /\ UNCHANGED <<Vrfs, Bridges, Pagination, links, frr>>
    /\ IF verr # OK
       THEN resp' = Reply("GetVrf", in, verr, NoObj, <<>>)
       ELSE IF in.Name \notin DOMAIN Vrfs
       THEN resp' = Reply("GetVrf", in, NotFound, NoObj, <<>>)
       ELSE
       LET obj == Vrfs[in.Name]
           lerr == LinkByName(PathBase(obj.name), fault = "lookup")
       IN
       IF LookupFailed(lerr)
       THEN resp' = Reply("GetVrf", in, NotFound, NoObj, <<Did("LinkByName", lerr)>>)
       ELSE resp' = Reply("GetVrf", in, OK,
                          Vrf(in.Name, obj.spec.vni, VrfStatus(77, 0, NoMac)),
                          <<Did("LinkByName", lerr)>>)

\* ---------------------------------------------------------- LogicalBridge
LogicalBridge(name, vni, vlanId, status) ==
    [name |-> name, spec |-> [vni |-> vni, vlanId |-> vlanId], status |-> status]

BridgeUp == [operStatus |-> "UP"]
NoBridgeStatus == [operStatus |-> "UNSPECIFIED"]

CreateLogicalBridgeRequests ==
    [LogicalBridgeId : RequestIds,
     LogicalBridge : {LogicalBridge(EmptyStr, v, l, NoBridgeStatus) :
                         v \in BridgeVnis, l \in VlanIds} \cup {NoObj}]

validateCreateLogicalBridgeRequest(in) ==
    IF in.LogicalBridge = NoObj THEN InvalidArgument
    ELSE IF in.LogicalBridgeId # EmptyStr /\ ~ValidateUserSettable(in.LogicalBridgeId)
    THEN InvalidArgument
    ELSE OK

FreshBridgeId(id) == resourceIDToFullName(StrBridges, id) \notin DOMAIN Bridges

BridgeExists(name) == name \in DOMAIN Bridges

\* the kernel side of a bridge is its vxlan link "vni<N>", when it has a VNI
netlinkCreateLogicalBridge(obj, fail) ==
    IF obj.spec.vni # NoVni THEN LinkAdd(vxlanName(obj.spec.vni), fail)
    ELSE IF fail THEN [err |-> AdapterError, links |-> links]
    ELSE [err |-> OK, links |-> links]

netlinkDeleteLogicalBridge(obj, fail) ==
    IF obj.spec.vni # NoVni THEN LinkDel(vxlanName(obj.spec.vni), fail)
    ELSE IF fail THEN [err |-> AdapterError, links |-> links]
    ELSE [err |-> OK, links |-> links]

CreateLogicalBridge(in, genID, fault) ==
    LET verr == validateCreateLogicalBridgeRequest(in) IN
    IF verr # OK
    THEN /\ resp' = Reply("CreateLogicalBridge", in, verr, NoObj, <<>>)
         /\ UNCHANGED <<Vrfs, Bridges, Pagination, links, frr>>
    ELSE
    LET resourceID == IF in.LogicalBridgeId # EmptyStr THEN in.LogicalBridgeId ELSE genID
        name == resourceIDToFullName(StrBridges, resourceID)
        req == [in EXCEPT !.LogicalBridge = AssignName(in.LogicalBridge, name)]
    IN
    /\ in.LogicalBridgeId = EmptyStr => FreshBridgeId(genID)
    /\ IF BridgeExists(name)
       THEN /\ resp' = Reply("CreateLogicalBridge", req, OK, Bridges[name], <<>>)
            /\ UNCHANGED <<Vrfs, Bridges, Pagination, links, frr>>
       ELSE
       LET nl == netlinkCreateLogicalBridge(req.LogicalBridge, fault = "netlink")
           response == [req.LogicalBridge EXCEPT !.status = BridgeUp]
       IN
       IF nl.err # OK
       THEN /\ resp' = Reply("CreateLogicalBridge", req, nl.err, NoObj, <<Did("LinkAdd", nl.err)>>)
            /\ UNCHANGED <<Vrfs, Bridges, Pagination, links, frr>>
       ELSE /\ resp' = Reply("CreateLogicalBridge", req, OK, response, <<Did("LinkAdd", nl.err)>>)
            /\ links' = nl.links
            /\ Bridges' = MapPut(Bridges, name, response)
            /\ UNCHANGED <<Vrfs, Pagination, frr>>

DeleteLogicalBridgeRequests == [Name : BridgeNames \cup {EmptyStr}, AllowMissing : BOOLEAN]

validateDeleteLogicalBridgeRequest(in) ==
    IF in.Name = EmptyStr THEN InvalidArgument ELSE OK

DeleteLogicalBridge(in, fault) ==
    LET verr == validateDeleteLogicalBridgeRequest(in) IN
    IF verr # OK
    THEN /\ resp' = Reply("DeleteLogicalBridge", in, verr, NoObj, <<>>)
         /\ UNCHANGED <<Vrfs, Bridges, Pagination, links, frr>>
    ELSE IF in.Name \notin DOMAIN Bridges
    THEN /\ resp' = Reply("DeleteLogicalBridge", in, DeleteMissing(in.AllowMissing),
                          NoObj, <<>>)
         /\ UNCHANGED <<Vrfs, Bridges, Pagination, links, frr>>
    ELSE
    LET obj == Bridges[in.Name]
        nl == netlinkDeleteLogicalBridge(obj, fault = "netlink")
    IN
    IF AdapterFailed(nl.err)
    THEN /\ resp' = Reply("DeleteLogicalBridge", in, nl.err, NoObj, <<Did("LinkDel", nl.err)>>)
         /\ UNCHANGED <<Vrfs, Bridges, Pagination, links, frr>>
    ELSE /\ resp' = Reply("DeleteLogicalBridge", in, OK, NoObj, <<Did("LinkDel", nl.err)>>)
         /\ links' = nl.links
         /\ Bridges' = MapDel(Bridges, obj.name)
         /\ UNCHANGED <<Vrfs, Pagination, frr>>

UpdateLogicalBridgeRequests ==
    [LogicalBridge : {LogicalBridge(n, v, l, NoBridgeStatus) :
                         n \in BridgeNames, v \in BridgeVnis, l \in VlanIds} \cup {NoObj}]

validateUpdateLogicalBridgeRequest(in) ==
    IF in.LogicalBridge = NoObj THEN InvalidArgument ELSE OK

UpdateLogicalBridge(in, fault) ==
    LET verr == validateUpdateLogicalBridgeRequest(in) IN
    IF verr # OK
    THEN /\ resp' = Reply("UpdateLogicalBridge", in, verr, NoObj, <<>>)
         /\ UNCHANGED <<Vrfs, Bridges, Pagination, links, frr>>
    ELSE IF in.LogicalBridge.name \notin DOMAIN Bridges
    THEN /\ resp' = Reply("UpdateLogicalBridge", in, NotFound, NoObj, <<>>)
         /\ UNCHANGED <<Vrfs, Bridges, Pagination, links, frr>>
    ELSE
    LET bridge == Bridges[in.LogicalBridge.name]
        hasVni == bridge.spec.vni # NoVni
        lerr == IF hasVni THEN LinkByName(vxlanName(bridge.spec.vni), fault = "lookup")
                ELSE OK
        merr == IF hasVni THEN LinkModify(fault = "modify") ELSE OK
        response == [in.LogicalBridge EXCEPT !.status = BridgeUp]
    IN
    IF LookupFailed(lerr)
    THEN /\ resp' = Reply("UpdateLogicalBridge", in, NotFound, NoObj, <<Did("LinkByName", lerr)>>)
         /\ UNCHANGED <<Vrfs, Bridges, Pagination, links, frr>>
    ELSE IF merr # OK
    THEN /\ resp' = Reply("UpdateLogicalBridge", in, merr, NoObj,
                          <<Did("LinkByName", lerr), Did("LinkModify", merr)>>)
         /\ UNCHANGED <<Vrfs, Bridges, Pagination, links, frr>>
    ELSE /\ resp' = Reply("UpdateLogicalBridge", in, OK, response,
                          IF hasVni THEN <<Did("LinkByName", lerr), Did("LinkModify", merr)>> ELSE <<>>)
         /\ Bridges' = MapPut(Bridges, in.LogicalBridge.name, response)
         /\ UNCHANGED <<Vrfs, Pagination, links, frr>>

GetLogicalBridgeRequests == [Name : BridgeNames \cup {EmptyStr}]

validateGetLogicalBridgeRequest(in) ==
    IF in.Name = EmptyStr THEN InvalidArgument ELSE OK

GetLogicalBridge(in, fault) ==
    LET verr == validateGetLogicalBridgeRequest(in) IN
    /\ UNCHANGED <<Vrfs, Bridges, Pagination, links, frr>>
    /\ IF verr # OK
       THEN resp' = Reply("GetLogicalBridge", in, verr, NoObj, <<>>)
       ELSE IF in.Name \notin DOMAIN Bridges
       THEN resp' = Reply("GetLogicalBridge", in, NotFound, NoObj, <<>>)
       ELSE
       LET bridge == Bridges[in.Name]
           hasVni == bridge.spec.vni # NoVni
           lerr == IF hasVni THEN LinkByName(vxlanName(bridge.spec.vni), fault = "lookup")
                   ELSE OK
       IN
       IF LookupFailed(lerr)
       THEN resp' = Reply("GetLogicalBridge", in, NotFound, NoObj, <<Did("LinkByName", lerr)>>)
       ELSE resp' = Reply("GetLogicalBridge", in, OK,
                          LogicalBridge(in.Name, bridge.spec.vni, bridge.spec.vlanId, BridgeUp),
                          IF hasVni THEN <<Did("LinkByName", lerr)>> ELSE <<>>)

\* ------------------------------------------------------------------- List
DefaultPageSize == 50

ListRequests == [PageSize : PageSizes, PageToken : {NoToken} \cup Tokens]

\* page length and resume offset of a request
extractPagination(pageSize, pageToken, pagination) ==
    LET size == IF pageSize = 0 THEN DefaultPageSize ELSE pageSize IN
    IF pageToken = NoToken THEN [err |-> OK, size |-> size, offset |-> 0]
    ELSE IF pageToken \notin DOMAIN pagination
    THEN [err |-> InvalidArgument, size |-> size, offset |-> 0]
    ELSE [err |-> OK, size |-> size, offset |-> pagination[pageToken]]

\* the slice [offset, offset+size) of result, and whether elements remain
limitPagination(result, offset, size) ==
    LET end == IF offset + size < Len(result) THEN offset + size ELSE Len(result) IN
    [page |-> SubSeq(result, offset + 1, end),
     hasMoreElements |-> offset + size < Len(result)]

\* the orders in which ranging over a Go map can visit its keys
Orders(m) ==
    {o \in [1..Cardinality(DOMAIN m) -> DOMAIN m] :
        \A i, j \in 1..Cardinality(DOMAIN m) : i # j => o[i] # o[j]}

\* sort.Slice by Name (insertion into the sorted prefix)
RECURSIVE InsertByName(_, _)
InsertByName(x, sorted) ==
    IF sorted = <<>> THEN <<x>>
    ELSE IF StrLess(x.name, Head(sorted).name) THEN <<x>> \o sorted
    ELSE <<Head(sorted)>> \o InsertByName(x, Tail(sorted))

RECURSIVE SortByName(_)
SortByName(objs) ==
    IF objs = <<>> THEN <<>> ELSE InsertByName(Head(objs), SortByName(Tail(objs)))

\* the snapshot left in map iteration order
sortVrfsSkipped(vrfs) == vrfs

sortVrfs(vrfs) == SortByName(vrfs)

sortLogicalBridges(bridges) == SortByName(bridges)

ListVrfStatus == VrfStatus(4, 0, NoMac)

\* the resume offset recorded without the page just returned
NextOffsetStale(offset, size) == offset

NextOffset(offset, size) == offset + size

\* a pagination error that is not looked at
PaginationFailedIgnored(perr) == FALSE

PaginationFailed(perr) == perr # OK

\* the token table started afresh by every recorded token
RecordTokenAlone(pagination, token, offset) == [t \in {token} |-> offset]

\* s.Pagination[token] = offset + size
RecordToken(pagination, token, offset) == MapPut(pagination, token, offset)

ListReply(op, in, code, page, token) ==
    [op |-> op, in |-> in, code |-> code, obj |-> NoObj,
     page |-> page, token |-> token, calls |-> <<>>]

ListVrfs(in, order, uuid) ==
    LET pg == extractPagination(in.PageSize, in.PageToken, Pagination) IN
    IF PaginationFailed(pg.err)
    THEN /\ resp' = ListReply("ListVrfs", in, pg.err, <<>>, NoToken)
         /\ UNCHANGED <<Vrfs, Bridges, Pagination, links, frr>>
    ELSE
    LET Blobarray == [i \in DOMAIN order |-> [Vrfs[order[i]] EXCEPT !.status = ListVrfStatus]]
        lim == limitPagination(sortVrfs(Blobarray), pg.offset, pg.size)
    IN
    IF lim.hasMoreElements
    THEN /\ uuid \notin DOMAIN Pagination
         /\ Pagination' = RecordToken(Pagination, uuid, NextOffset(pg.offset, pg.size))
         /\ resp' = ListReply("ListVrfs", in, OK, lim.page, uuid)
         /\ UNCHANGED <<Vrfs, Bridges, links, frr>>
    ELSE /\ resp' = ListReply("ListVrfs", in, OK, lim.page, NoToken)
         /\ UNCHANGED <<Vrfs, Bridges, Pagination, links, frr>>

ListLogicalBridges(in, order, uuid) ==
    LET pg == extractPagination(in.PageSize, in.PageToken, Pagination) IN
    IF PaginationFailed(pg.err)
    THEN /\ resp' = ListReply("ListLogicalBridges", in, pg.err, <<>>, NoToken)
         /\ UNCHANGED <<Vrfs, Bridges, Pagination, links, frr>>
    ELSE
    LET Blobarray == [i \in DOMAIN order |-> [Bridges[order[i]] EXCEPT !.status = BridgeUp]]
        lim == limitPagination(sortLogicalBridges(Blobarray), pg.offset, pg.size)
    IN
    IF lim.hasMoreElements
    THEN /\ uuid \notin DOMAIN Pagination
         /\ Pagination' = RecordToken(Pagination, uuid, NextOffset(pg.offset, pg.size))
         /\ resp' = ListReply("ListLogicalBridges", in, OK, lim.page, uuid)
         /\ UNCHANGED <<Vrfs, Bridges, links, frr>>
    ELSE /\ resp' = ListReply("ListLogicalBridges", in, OK, lim.page, NoToken)
         /\ UNCHANGED <<Vrfs, Bridges, Pagination, links, frr>>

\* ------------------------------------------------------------ environment
\* a link is removed behind the service's back
OutOfBandLinkDel(name) ==
    /\ links' = links \ {name}
    /\ UNCHANGED <<Vrfs, Bridges, Pagination, frr, resp>>

\* the caller takes the response; the next call can start
Return ==
    /\ ~Idle
    /\ resp' = NoCall
    /\ UNCHANGED <<Vrfs, Bridges, Pagination, links, frr, trav, inflight>>

CallCreateVrf ==
    /\ Idle
    /\ \E in \in CreateVrfRequests, genID \in SysIds, mac \in Macs, f \in CreateVrfFaults :
          CreateVrf(in, genID, mac, f)
    /\ UNCHANGED <<trav, inflight>>

CallDeleteVrf ==
    /\ Idle
    /\ \E in \in DeleteVrfRequests, f \in DeleteVrfFaults : DeleteVrf(in, f)
    /\ UNCHANGED <<trav, inflight>>

CallUpdateVrf ==
    /\ Idle
    /\ \E in \in UpdateVrfRequests, f \in UpdateFaults : UpdateVrf(in, f)
    /\ UNCHANGED <<trav, inflight>>

CallGetVrf ==
    /\ Idle
    /\ \E in \in GetVrfRequests, f \in GetFaults : GetVrf(in, f)
    /\ UNCHANGED <<trav, inflight>>

CallListVrfs ==
    /\ Idle
    /\ \E in \in ListRequests, o \in Orders(Vrfs), u \in Tokens : ListVrfs(in, o, u)
    /\ UNCHANGED <<trav, inflight>>

CallCreateLogicalBridge ==
    /\ Idle
    /\ \E in \in CreateLogicalBridgeRequests, genID \in SysIds, f \in BridgeFaults :
          CreateLogicalBridge(in, genID, f)
    /\ UNCHANGED <<trav, inflight>>

CallDeleteLogicalBridge ==
    /\ Idle
    /\ \E in \in DeleteLogicalBridgeRequests, f \in BridgeFaults : DeleteLogicalBridge(in, f)
    /\ UNCHANGED <<trav, inflight>>

CallUpdateLogicalBridge ==
    /\ Idle
    /\ \E in \in UpdateLogicalBridgeRequests, f \in UpdateFaults : UpdateLogicalBridge(in, f)
    /\ UNCHANGED <<trav, inflight>>

CallGetLogicalBridge ==
    /\ Idle
    /\ \E in \in GetLogicalBridgeRequests, f \in GetFaults : GetLogicalBridge(in, f)
    /\ UNCHANGED <<trav, inflight>>

CallListLogicalBridges ==
    /\ Idle
    /\ \E in \in ListRequests, o \in Orders(Bridges), u \in Tokens :
          ListLogicalBridges(in, o, u)
    /\ UNCHANGED <<trav, inflight>>

OutOfBand ==
    /\ Idle
    /\ \E name \in links : OutOfBandLinkDel(name)
    /\ UNCHANGED <<trav, inflight>>

\* calls and responses only: nothing touches the backends but the service
NextNoOob ==
    \/ CallCreateVrf
    \/ CallDeleteVrf
    \/ CallUpdateVrf
    \/ CallGetVrf
    \/ CallListVrfs
    \/ CallCreateLogicalBridge
    \/ CallDeleteLogicalBridge
    \/ CallUpdateLogicalBridge
    \/ CallGetLogicalBridge
    \/ CallListLogicalBridges
    \/ Return

Next ==
    \/ NextNoOob
    \/ OutOfBand

Spec == Init /\ [][Next]_vars

SpecNoOob == Init /\ [][NextNoOob]_vars

\* ------------------------------------------------- paging through a listing
\* A client lists one collection page by page: the first call carries no
\* token, each later call the token of the previous response, all the same
\* page size. Nothing else runs, so the stores stay as they are.
ListIds == {IdA, IdB, IdGen}

ListVrfObjects(name) ==
    {Vrf(name, 12, CreateVrfStatus(tableIDOf(12), 1)), Vrf(name, NoVni, UpdateVrfStatus)}

ListBridgeObjects(name) ==
    {LogicalBridge(name, v, l, BridgeUp) : v \in BridgeVnis, l \in VlanIds}

ListVrfStores ==
    UNION {{m \in [{resourceIDToFullName(StrVrfs, id) : id \in ids} ->
                     UNION {ListVrfObjects(resourceIDToFullName(StrVrfs, id)) : id \in ids}] :
               \A n \in DOMAIN m : m[n].name = n} : ids \in SUBSET ListIds}

ListBridgeStores ==
    UNION {{m \in [{resourceIDToFullName(StrBridges, id) : id \in ids} ->
                     UNION {ListBridgeObjects(resourceIDToFullName(StrBridges, id)) : id \in ids}] :
               \A n \in DOMAIN m : m[n].name = n} : ids \in SUBSET ListIds}

StartTrav(kind, size) ==
    [kind |-> kind, size |-> size, token |-> NoToken, acc |-> <<>>, lens |-> <<>>,
     done |-> FALSE, failed |-> FALSE]

InitList ==
    /\ Vrfs \in ListVrfStores
    /\ Bridges \in ListBridgeStores
    /\ Pagination = <<>>
    /\ links = {PathBase(n) : n \in DOMAIN Vrfs}
                  \cup {vxlanName(Bridges[n].spec.vni) :
                           n \in {b \in DOMAIN Bridges : Bridges[b].spec.vni # NoVni}}
    /\ frr = DOMAIN Vrfs
    /\ resp = NoCall
    /\ trav \in {StartTrav(k, s) : k \in {"vrfs", "bridges"}, s \in PageSizes \ {0}}
    /\ inflight = NoInflight

\* what the client keeps of a response
Observe(t, r) ==
    IF r.code # OK THEN [t EXCEPT !.done = TRUE, !.failed = TRUE]
    ELSE [t EXCEPT !.acc = @ \o r.page, !.lens = Append(@, Len(r.page)),
                   !.token = r.token, !.done = (r.token = NoToken)]

PageVrfs ==
    /\ trav.kind = "vrfs"
    /\ ~trav.done
    /\ \E o \in Orders(Vrfs), u \in Tokens :
          ListVrfs([PageSize |-> trav.size, PageToken |-> trav.token], o, u)
    /\ trav' = Observe(trav, resp')
    /\ UNCHANGED inflight

PageLogicalBridges ==
    /\ trav.kind = "bridges"
    /\ ~trav.done
    /\ \E o \in Orders(Bridges), u \in Tokens :
          ListLogicalBridges([PageSize |-> trav.size, PageToken |-> trav.token], o, u)
    /\ trav' = Observe(trav, resp')
    /\ UNCHANGED inflight

NextList ==
    \/ PageVrfs
    \/ PageLogicalBridges

SpecList == InitList /\ [][NextList]_vars

\* ------------------------------------------------------------- BridgePort
\* largest number of logical bridge references in a CreateBridgePort request
MaxRefs == 2

BridgePortTypes == {"UNKNOWN", "ACCESS", "TRUNK"}

RefLists == UNION {[1..n -> BridgeNames] : n \in 0..MaxRefs}

\* required: whether every field the API marks REQUIRED is present
CreateBridgePortRequests ==
    [BridgePortId : RequestIds, required : BOOLEAN,
     BridgePort : [spec : [ptype : BridgePortTypes, logicalBridges : RefLists]]]

\* the cardinality test written as "at least one"
validateCreateBridgePortRequestAny(in) ==
    IF ~in.required THEN "MissingRequiredField"
    ELSE
    LET length == Len(in.BridgePort.spec.logicalBridges) IN
    IF in.BridgePort.spec.ptype = "ACCESS" /\ length >= 1 THEN InvalidArgument
    ELSE IF in.BridgePortId # EmptyStr /\ ~ValidateUserSettable(in.BridgePortId)
    THEN "InvalidUserSettableId"
    ELSE OK

validateCreateBridgePortRequest(in) ==
    IF ~in.required THEN "MissingRequiredField"
    ELSE
    LET length == Len(in.BridgePort.spec.logicalBridges) IN
    IF in.BridgePort.spec.ptype = "ACCESS" /\ length > 1 THEN InvalidArgument
    ELSE IF in.BridgePortId # EmptyStr /\ ~ValidateUserSettable(in.BridgePortId)
    THEN "InvalidUserSettableId"
    ELSE OK

InitPort ==
    /\ Vrfs = <<>>
    /\ Bridges = <<>>
    /\ Pagination = <<>>
    /\ links = {}
    /\ frr = {}
    /\ trav = NoTrav
    /\ inflight = NoInflight
    /\ resp \in {[op |-> "validateCreateBridgePortRequest", in |-> r, code |-> "pending"] :
                    r \in CreateBridgePortRequests}

ValidateBridgePort ==
    /\ resp.op = "validateCreateBridgePortRequest"
    /\ resp.code = "pending"
    /\ resp' = [resp EXCEPT !.code = validateCreateBridgePortRequest(resp.in)]
    /\ UNCHANGED <<Vrfs, Bridges, Pagination, links, frr, trav, inflight>>

NextPort == ValidateBridgePort

SpecPort == InitPort /\ [][NextPort]_vars

\* ------------------------------------------- creates running side by side
\* The server runs each call in its own goroutine and the handlers take no
\* lock, so the statements of several Create calls interleave. Each call is
\* cut where it reads the store, calls an adapter, or writes the store.
NumProcs == 2
Procs == 1..NumProcs

ConcVrfRequests ==
    {[VrfId |-> IdA, Vrf |-> Vrf(EmptyStr, v, NoVrfStatus)] : v \in {NoVni, 12}}

ConcBridgeRequests ==
    {[LogicalBridgeId |-> IdA, LogicalBridge |-> LogicalBridge(EmptyStr, v, l, NoBridgeStatus)] :
        v \in BridgeVnis, l \in VlanIds}

\* an invocation that has validated its request and named its resource
Started(op, in) ==
    [op |-> op, in |-> in, pc |-> "probe", code |-> "pending", obj |-> NoObj,
     response |-> NoObj, calls |-> <<>>, wrote |-> FALSE]

InitConc ==
    /\ Vrfs = <<>>
    /\ Bridges = <<>>
    /\ Pagination = <<>>
    /\ links = {}
    /\ frr = {}
    /\ resp = NoCall
    /\ trav = NoTrav
    /\ inflight \in [Procs -> {Started("CreateVrf", r) : r \in ConcVrfRequests}]
                       \cup [Procs -> {Started("CreateLogicalBridge", r) : r \in ConcBridgeRequests}]

At(p, op, pc) == inflight[p].op = op /\ inflight[p].pc = pc

\* the invocation returns to its caller
Finish(p, code, obj, calls) ==
    inflight' = [inflight EXCEPT ![p].pc = "done", ![p].code = code, ![p].obj = obj,
                                 ![p].calls = calls]

Goto(p, pc, response, calls) ==
    inflight' = [inflight EXCEPT ![p].pc = pc, ![p].response = response, ![p].calls = calls]

\* the idempotency probe, then the local computation of the status
CreateVrfProbe(p, macDraw, fail) ==
    LET me == inflight[p]
        name == resourceIDToFullName(StrVrfs, me.in.VrfId)
        rnd == generateRandMAC(macDraw, fail)
        response == [me.in.Vrf EXCEPT !.name = name,
                                      !.status = CreateVrfStatus(tableIDOf(me.in.Vrf.spec.vni), rnd.mac)]
    IN
    /\ At(p, "CreateVrf", "probe")
    /\ IF VrfExists(name) THEN Finish(p, OK, Vrfs[name], <<>>)
       ELSE IF rnd.err # OK THEN Finish(p, rnd.err, NoObj, <<>>)
       ELSE Goto(p, "netlink", response, <<>>)
    /\ UNCHANGED <<Vrfs, Bridges, Pagination, links, frr, resp, trav>>

CreateVrfNetlink(p, fail) ==
    LET me == inflight[p]
        nl == netlinkCreateVrf(me.in.VrfId, fail)
        calls == <<Did("LinkAdd", nl.err)>>
    IN
    /\ At(p, "CreateVrf", "netlink")
    /\ links' = nl.links
    /\ IF nl.err # OK THEN Finish(p, nl.err, NoObj, calls)
       ELSE Goto(p, "frr", me.response, calls)
    /\ UNCHANGED <<Vrfs, Bridges, Pagination, frr, resp, trav>>

CreateVrfFrr(p, fail) ==
    LET me == inflight[p]
        fr == frrCreateVrfRequest(me.response.name, fail)
        calls == Append(me.calls, Did("FrrCreate", fr.err))
    IN
    /\ At(p, "CreateVrf", "frr")
    /\ frr' = fr.frr
    /\ IF fr.err # OK THEN Finish(p, fr.err, NoObj, calls)
       ELSE Goto(p, "commit", me.response, calls)
    /\ UNCHANGED <<Vrfs, Bridges, Pagination, links, resp, trav>>

CreateVrfCommit(p) ==
    LET me == inflight[p] IN
    /\ At(p, "CreateVrf", "commit")
    /\ Vrfs' = MapPut(Vrfs, me.response.name, me.response)
    /\ inflight' = [inflight EXCEPT ![p].pc = "done", ![p].code = OK,
                                    ![p].obj = me.response, ![p].wrote = TRUE]
    /\ UNCHANGED <<Bridges, Pagination, links, frr, resp, trav>>

CreateLogicalBridgeProbe(p) ==
    LET me == inflight[p]
        name == resourceIDToFullName(StrBridges, me.in.LogicalBridgeId)
        response == [me.in.LogicalBridge EXCEPT !.name = name, !.status = BridgeUp]
    IN
    /\ At(p, "CreateLogicalBridge", "probe")
    /\ IF BridgeExists(name) THEN Finish(p, OK, Bridges[name], <<>>)
       ELSE Goto(p, "netlink", response, <<>>)
    /\ UNCHANGED <<Vrfs, Bridges, Pagination, links, frr, resp, trav>>

CreateLogicalBridgeNetlink(p, fail) ==
    LET me == inflight[p]
        nl == netlinkCreateLogicalBridge(me.response, fail)
        calls == <<Did("LinkAdd", nl.err)>>
    IN
    /\ At(p, "CreateLogicalBridge", "netlink")
    /\ links' = nl.links
    /\ IF nl.err # OK THEN Finish(p, nl.err, NoObj, calls)
       ELSE Goto(p, "commit", me.response, calls)
    /\ UNCHANGED <<Vrfs, Bridges, Pagination, frr, resp, trav>>

CreateLogicalBridgeCommit(p) ==
    LET me == inflight[p] IN
    /\ At(p, "CreateLogicalBridge", "commit")
    /\ Bridges' = MapPut(Bridges, me.response.name, me.response)
    /\ inflight' = [inflight EXCEPT ![p].pc = "done", ![p].code = OK,
                                    ![p].obj = me.response, ![p].wrote = TRUE]
    /\ UNCHANGED <<Vrfs, Pagination, links, frr, resp, trav>>

\* A write of the store map that is not ordered against another access of
\* it is a data race: besides taking effect in either order, the runtime
\* may detect it and end the whole process ("concurrent map writes").
MapRaceFatal ==
    /\ \E p, q \in Procs :
          /\ p # q
          /\ inflight[p].pc = "commit"
          /\ inflight[q].pc \in {"probe", "commit"}
    /\ inflight' = [p \in Procs |->
                       IF inflight[p].pc = "done" THEN inflight[p]
                       ELSE [inflight[p] EXCEPT !.pc = "fatal"]]
    /\ UNCHANGED <<Vrfs, Bridges, Pagination, links, frr, resp, trav>>

StepCreateVrfProbe == \E p \in Procs, mac \in Macs, fail \in BOOLEAN : CreateVrfProbe(p, mac, fail)
StepCreateVrfNetlink == \E p \in Procs, fail \in BOOLEAN : CreateVrfNetlink(p, fail)
StepCreateVrfFrr == \E p \in Procs, fail \in BOOLEAN : CreateVrfFrr(p, fail)
StepCreateVrfCommit == \E p \in Procs : CreateVrfCommit(p)
StepCreateLogicalBridgeProbe == \E p \in Procs : CreateLogicalBridgeProbe(p)
StepCreateLogicalBridgeNetlink == \E p \in Procs, fail \in BOOLEAN : CreateLogicalBridgeNetlink(p, fail)
StepCreateLogicalBridgeCommit == \E p \in Procs : CreateLogicalBridgeCommit(p)

NextConc ==
    \/ StepCreateVrfProbe
    \/ StepCreateVrfNetlink
    \/ StepCreateVrfFrr
    \/ StepCreateVrfCommit
    \/ StepCreateLogicalBridgeProbe
    \/ StepCreateLogicalBridgeNetlink
    \/ StepCreateLogicalBridgeCommit
    \/ MapRaceFatal

SpecConc == InitConc /\ [][NextConc]_vars

\* ------------------------------------------------------------- properties
\* the steps of a behaviour that are one call of the named handler
IsCall(op) == Idle /\ resp'.op = op

StoresUnchanged == UNCHANGED <<Vrfs, Bridges, Pagination>>

BackendsUnchanged == UNCHANGED <<links, frr>>

AllSucceeded(calls) == \A i \in 1..Len(calls) : calls[i].err = OK

CallNames(calls) == [i \in 1..Len(calls) |-> calls[i].call]

\* C1 Idempotent create: a CreateVrf or CreateLogicalBridge call that carries
\* a caller-supplied id whose name is already in the store returns exactly
\* the stored object, makes no backend call and changes neither the stores
\* nor the backends, whatever spec the request carries.
C1_IdempotentCreate ==
    [][ /\ (/\ IsCall("CreateVrf")
            /\ resp'.in.Vrf # NoObj
            /\ resp'.in.VrfId \in UserIds
            /\ resourceIDToFullName(StrVrfs, resp'.in.VrfId) \in DOMAIN Vrfs)
           => /\ resp'.code = OK
              /\ resp'.obj = Vrfs[StrVrfs \o <<Slash>> \o resp'.in.VrfId]
              /\ resp'.calls = <<>>
              /\ StoresUnchanged
              /\ BackendsUnchanged
        /\ (/\ IsCall("CreateLogicalBridge")
            /\ resp'.in.LogicalBridge # NoObj
            /\ resp'.in.LogicalBridgeId \in UserIds
            /\ resourceIDToFullName(StrBridges, resp'.in.LogicalBridgeId) \in DOMAIN Bridges)
           => /\ resp'.code = OK
              /\ resp'.obj = Bridges[StrBridges \o <<Slash>> \o resp'.in.LogicalBridgeId]
              /\ resp'.calls = <<>>
              /\ StoresUnchanged
              /\ BackendsUnchanged
      ]_vars

\* a second CreateVrf with another spec got the stored object, rmac included
C1_Witness ==
    /\ resp.op = "CreateVrf"
    /\ resp.code = OK
    /\ resp.calls = <<>>
    /\ resp.in.VrfId \in UserIds
    /\ resp.obj = Vrfs[resp.in.Vrf.name]
    /\ resp.obj.status.rmac # NoMac
    /\ resp.in.Vrf.spec # resp.obj.spec

\* C2 Delete strict postcondition: a Delete of a stored name removes the
\* entry if and only if every teardown step of the call succeeded (kernel
\* link removal, for a VRF also routing-daemon removal); if an adapter step
\* fails the call returns that error and the stores are as before.
C2_DeleteStrict ==
    [][ /\ (IsCall("DeleteVrf") /\ resp'.in.Name \in DOMAIN Vrfs)
           => LET torn == /\ CallNames(resp'.calls) = <<"LinkDel", "FrrDelete">>
                          /\ AllSucceeded(resp'.calls)
              IN /\ (resp'.in.Name \notin DOMAIN Vrfs') <=> torn
                 /\ torn => resp'.code = OK
                 /\ ~torn => /\ StoresUnchanged
                             /\ resp'.calls # <<>>
                             /\ resp'.code = resp'.calls[Len(resp'.calls)].err
                             /\ resp'.code # OK
        /\ (IsCall("DeleteLogicalBridge") /\ resp'.in.Name \in DOMAIN Bridges)
           => LET torn == /\ CallNames(resp'.calls) = <<"LinkDel">>
                          /\ AllSucceeded(resp'.calls)
              IN /\ (resp'.in.Name \notin DOMAIN Bridges') <=> torn
                 /\ torn => resp'.code = OK
                 /\ ~torn => /\ StoresUnchanged
                             /\ resp'.calls # <<>>
                             /\ resp'.code = resp'.calls[Len(resp'.calls)].err
                             /\ resp'.code # OK
      ]_vars

\* a DeleteVrf failed at the routing-daemon step and the VRF is still stored
C2_Witness ==
    /\ resp.op = "DeleteVrf"
    /\ resp.code = AdapterError
    /\ CallNames(resp.calls) = <<"LinkDel", "FrrDelete">>
    /\ resp.calls[1].err = OK
    /\ resp.in.Name \in DOMAIN Vrfs

\* C3 Delete allow-missing: a Delete of a name that is not in the store
\* returns success when allow-missing is set and NotFound when it is not;
\* either way no adapter is called and stores and backends are unchanged.
C3_DeleteAllowMissing ==
    [][ /\ (/\ IsCall("DeleteVrf")
            /\ resp'.in.Name # EmptyStr
            /\ resp'.in.Name \notin DOMAIN Vrfs)
           => /\ resp'.in.AllowMissing => resp'.code = OK
              /\ ~resp'.in.AllowMissing => resp'.code = NotFound
              /\ resp'.calls = <<>>
              /\ StoresUnchanged
              /\ BackendsUnchanged
        /\ (/\ IsCall("DeleteLogicalBridge")
            /\ resp'.in.Name # EmptyStr
            /\ resp'.in.Name \notin DOMAIN Bridges)
           => /\ resp'.in.AllowMissing => resp'.code = OK
              /\ ~resp'.in.AllowMissing => resp'.code = NotFound
              /\ resp'.calls = <<>>
              /\ StoresUnchanged
              /\ BackendsUnchanged
      ]_vars

\* a DeleteVrf with allow-missing of an absent name succeeded without a call
C3_Witness ==
    /\ resp.op = "DeleteVrf"
    /\ resp.in.Name \in VrfNames
    /\ resp.in.AllowMissing
    /\ resp.code = OK
    /\ resp.calls = <<>>

\* the names of a store in ascending order, by the definition of the order
Ascending(m) ==
    CHOOSE q \in Orders(m) : \A i, j \in DOMAIN q : i < j => StrLess(q[i], q[j])

\* the objects of a page are those stored under names[from+1 ..], spec intact
PageIs(page, m, names, from) ==
    \A i \in DOMAIN page :
          /\ from + i <= Len(names)
          /\ page[i].name = names[from + i]
          /\ page[i].spec = m[names[from + i]].spec

TravStore == IF trav.kind = "vrfs" THEN Vrfs ELSE Bridges

\* C4 Pagination stability: with the store unchanged, a List with no token
\* and page size s >= 1 followed by Lists with the token of the previous
\* response yields pages whose concatenation is the stored objects in
\* ascending name order, each once; every page but the last has s elements
\* and a token, and the traversal ends with an empty token after at most
\* one call per s objects.
C4_PaginationStability ==
    trav.kind # "none" =>
        LET n == Cardinality(DOMAIN TravStore)
            pages == Len(trav.lens)
        IN /\ ~trav.failed
           /\ PageIs(trav.acc, TravStore, Ascending(TravStore), 0)
           /\ \A i \in 1..pages : (i < pages \/ ~trav.done) => trav.lens[i] = trav.size
           /\ trav.done <=> (pages > 0 /\ trav.token = NoToken)
           /\ trav.done => Len(trav.acc) = n
           /\ (~trav.done /\ pages > 0) => Len(trav.acc) < n
           /\ pages > 1 => (pages - 1) * trav.size < n

\* three bridges listed two at a time: a full page with a token, then one
C4_Witness ==
    /\ trav.kind = "bridges"
    /\ trav.done
    /\ trav.size = 2
    /\ trav.lens = <<2, 1>>
    /\ Cardinality(DOMAIN Bridges) = 3

\* the page size and resume offset a request resolves to
SizeOf(in) == IF in.PageSize = 0 THEN DefaultPageSize ELSE in.PageSize

OffsetOf(in) == IF in.PageToken = NoToken THEN 0 ELSE Pagination[in.PageToken]

Min(a, b) == IF a < b THEN a ELSE b

SliceOk(r, m) ==
    LET names == Ascending(m)
        offset == OffsetOf(r.in)
        remain == offset + SizeOf(r.in) < Len(names)
    IN /\ Len(r.page) = (IF offset < Len(names)
                         THEN Min(offset + SizeOf(r.in), Len(names)) - offset ELSE 0)
       /\ PageIs(r.page, m, names, offset)
       /\ (r.token # NoToken) <=> remain
       /\ remain => /\ r.token \notin DOMAIN Pagination
                    /\ Pagination' = [t \in DOMAIN Pagination \cup {r.token} |->
                                         IF t = r.token THEN offset + SizeOf(r.in)
                                         ELSE Pagination[t]]
       /\ ~remain => Pagination' = Pagination

\* C5 Single List call: a successful List returns the slice
\* [offset, offset+size) of the name-sorted snapshot; it mints a new token,
\* recorded in the token table with value offset+size, if and only if
\* elements remain beyond the slice; otherwise the token is empty and the
\* table is unchanged.
C5_SingleList ==
    [][ /\ (IsCall("ListVrfs") /\ resp'.code = OK) => SliceOk(resp', Vrfs)
        /\ (IsCall("ListLogicalBridges") /\ resp'.code = OK) => SliceOk(resp', Bridges)
      ]_vars

\* a first page of one VRF out of two, with a token recorded at offset 1
C5_Witness ==
    /\ resp.op = "ListVrfs"
    /\ resp.code = OK
    /\ Len(resp.page) = 1
    /\ resp.token # NoToken
    /\ resp.token \in DOMAIN Pagination
    /\ Pagination[resp.token] = 1
    /\ Cardinality(DOMAIN Vrfs) = 2

\* the last call was a CreateVrf that created a new VRF
CreatedVrf == resp.op = "CreateVrf" /\ resp.code = OK /\ resp.calls # <<>>

\* a stored VRF that is as CreateVrf committed it
AsCreated(obj) == obj.status.rmac # NoMac

\* C6 Deterministic table ID: a successful CreateVrf of a new name stores
\* and returns routingTable = 1001 + (vni mod 10) when spec.vni is set and
\* 1000 when it is absent; so a VRF created with a VNI congruent modulo 10
\* to that of another created VRF gets the same routingTable.
C6_TableID ==
    CreatedVrf =>
        LET vni == resp.in.Vrf.spec.vni
            name == resp.in.Vrf.name
            table == resp.obj.status.routingTable
        IN /\ name \in DOMAIN Vrfs
           /\ Vrfs[name] = resp.obj
           /\ table = (IF vni = NoVni THEN 1000 ELSE 1001 + (vni - 10 * (vni \div 10)))
           /\ vni = 12 => table = 1003
           /\ \A n \in DOMAIN Vrfs :
                 (/\ AsCreated(Vrfs[n])
                  /\ vni # NoVni
                  /\ Vrfs[n].spec.vni # NoVni
                  /\ (Vrfs[n].spec.vni - vni) % 10 = 0)
                 => Vrfs[n].status.routingTable = table

\* a VRF created with vni 16777212 beside one created with vni 12: both 1003
C6_Witness ==
    /\ CreatedVrf
    /\ resp.in.Vrf.spec.vni = 16777212
    /\ resp.obj.status.routingTable = 1003
    /\ \E n \in DOMAIN Vrfs :
          /\ n # resp.obj.name
          /\ AsCreated(Vrfs[n])
          /\ Vrfs[n].spec.vni = 12
          /\ Vrfs[n].status.routingTable = 1003

\* C7 Update requires an existing live link: UpdateVrf of a stored name
\* whose kernel link (named by the short id) cannot be found returns
\* NotFound, calls no link-modify and leaves the stores as they were.
C7_UpdateNeedsLink ==
    [][ (/\ IsCall("UpdateVrf")
         /\ resp'.in.Vrf # NoObj
         /\ resp'.in.Vrf.name \in DOMAIN Vrfs
         /\ PathBase(resp'.in.Vrf.name) \notin links)
        => /\ resp'.code = NotFound
           /\ CallNames(resp'.calls) = <<"LinkByName">>
           /\ StoresUnchanged
           /\ BackendsUnchanged
      ]_vars

\* an UpdateVrf of a stored VRF whose link is gone was answered NotFound
C7_Witness ==
    /\ resp.op = "UpdateVrf"
    /\ resp.code = NotFound
    /\ resp.in.Vrf.name \in DOMAIN Vrfs
    /\ PathBase(resp.in.Vrf.name) \notin links
    /\ resp.in.Vrf.spec # Vrfs[resp.in.Vrf.name].spec

\* the request of a finished validation that had every required field and
\* an empty or well-formed id
PortWellFormed ==
    /\ resp.op = "validateCreateBridgePortRequest"
    /\ resp.code # "pending"
    /\ resp.in.required
    /\ resp.in.BridgePortId \in UserIds \cup {EmptyStr}

C9_RmacImmutable ==
    [][ \A n \in DOMAIN Vrfs \cap DOMAIN Vrfs' :
           Vrfs'[n].status.rmac = Vrfs[n].status.rmac ]_vars

\* C10 Store/backend consistency: with no out-of-band change, a VRF name is
\* in the store if and only if its kernel link exists and its
\* routing-daemon configuration is applied.
C10_StoreBackendConsistent ==
    \A n \in VrfNames :
        n \in DOMAIN Vrfs <=> (PathBase(n) \in links /\ n \in frr)

\* the store an invocation of a Create handler writes to
StoreOf(op) == IF op = "CreateVrf" THEN Vrfs ELSE Bridges

\* C11 At-most-once creation under concurrency: when several Create calls
\* with the same caller-supplied id run side by side, at most one of them
\* issues the kernel-link create, at most one commits to the store, and every
\* other call that succeeds returns the object that one committed.
C11_AtMostOnceCreate ==
    LET issuers == {p \in DOMAIN inflight : inflight[p].calls # <<>>}
        writers == {p \in DOMAIN inflight : inflight[p].wrote}
    IN /\ Cardinality(issuers) <= 1
       /\ Cardinality(writers) <= 1
       /\ \A p \in DOMAIN inflight :
             (inflight[p].pc = "done" /\ inflight[p].code = OK) =>
                \E n \in DOMAIN StoreOf(inflight[p].op) :
                   StoreOf(inflight[p].op)[n] = inflight[p].obj

ListOps == {"ListVrfs", "ListLogicalBridges"}

\* C12 Unknown page token: a ListVrfs or ListLogicalBridges call whose page
\* token is not empty and is not in the token table fails with
\* InvalidArgument, returns no page and no token, and records nothing.
C12_UnknownPageToken ==
    [][ \A op \in ListOps :
           (/\ IsCall(op)
            /\ resp'.in.PageToken # NoToken
            /\ resp'.in.PageToken \notin DOMAIN Pagination)
           => /\ resp'.code = InvalidArgument
              /\ resp'.page = <<>>
              /\ resp'.token = NoToken
              /\ Pagination' = Pagination ]_vars

\* a listing of a non-empty store is refused for a token other than the
\* one on record
C12_Witness ==
    /\ resp.op = "ListVrfs"
    /\ resp.code = InvalidArgument
    /\ resp.in.PageToken # NoToken
    /\ resp.in.PageToken \notin DOMAIN Pagination
    /\ DOMAIN Pagination # {}
    /\ Vrfs # <<>>

\* C13 Get is read-only: a GetVrf or GetLogicalBridge call changes neither
\* the VRF store, the bridge store nor the token table, leaves both backends
\* as they are, and calls no adapter but the link lookup.
C13_GetReadOnly ==
    [][ (IsCall("GetVrf") \/ IsCall("GetLogicalBridge"))
        => /\ StoresUnchanged
           /\ BackendsUnchanged
           /\ \A i \in 1..Len(resp'.calls) : resp'.calls[i].call = "LinkByName" ]_vars

\* a VRF is read with success while the store keeps the status it was
\* created with
C13_Witness ==
    /\ resp.op = "GetVrf"
    /\ resp.code = OK
    /\ resp.calls = <<Did("LinkByName", OK)>>
    /\ Vrfs[resp.in.Name].status.rmac # NoMac
    /\ resp.obj.status # Vrfs[resp.in.Name].status

UpdateOps == {"UpdateVrf", "UpdateLogicalBridge"}

\* the object an Update request carries, and the store it is looked up in
UpdateObject(r) == IF r.op = "UpdateVrf" THEN r.in.Vrf ELSE r.in.LogicalBridge

UpdateStore(r) == IF r.op = "UpdateVrf" THEN Vrfs ELSE Bridges

\* C14 No upsert on Update: an UpdateVrf or UpdateLogicalBridge call for a
\* name that is not in its store returns NotFound, makes no adapter call and
\* changes nothing; every Update call leaves the set of names of both stores
\* as it was.
C14_NoUpsert ==
    [][ \A op \in UpdateOps :
           IsCall(op) =>
              /\ DOMAIN Vrfs' = DOMAIN Vrfs
              /\ DOMAIN Bridges' = DOMAIN Bridges
              /\ (/\ UpdateObject(resp') # NoObj
                  /\ UpdateObject(resp').name \notin DOMAIN UpdateStore(resp'))
                 => /\ resp'.code = NotFound
                    /\ resp'.calls = <<>>
                    /\ StoresUnchanged
                    /\ BackendsUnchanged ]_vars

\* an update of a VRF name that is absent is refused while another VRF is
\* stored
C14_Witness ==
    /\ resp.op = "UpdateVrf"
    /\ resp.in.Vrf # NoObj
    /\ resp.in.Vrf.name \notin DOMAIN Vrfs
    /\ resp.code = NotFound
    /\ resp.calls = <<>>
    /\ Vrfs # <<>>

\* C15 Partial create failure: a CreateVrf call whose kernel-link step
\* succeeds and whose routing-daemon step fails returns the routing-daemon
\* adapter's error and stores nothing, and the link it created is still
\* there; the routing-daemon step of a call is only attempted after the
\* kernel-link step of the same call has succeeded.
C15_PartialCreate ==
    [][ IsCall("CreateVrf") =>
           LET calls == resp'.calls IN
           /\ (\E i \in 1..Len(calls) : calls[i].call = "FrrCreate")
              => (Len(calls) = 2 /\ calls[1] = Did("LinkAdd", OK) /\ calls[2].call = "FrrCreate")
           /\ (Len(calls) = 2 /\ calls[1] = Did("LinkAdd", OK) /\ calls[2].err # OK)
              => /\ resp'.code = calls[2].err
                 /\ resp'.obj = NoObj
                 /\ StoresUnchanged
                 /\ frr' = frr
                 /\ PathBase(resp'.in.Vrf.name) \notin links
                 /\ links' = links \cup {PathBase(resp'.in.Vrf.name)} ]_vars

\* a create has failed at the routing-daemon step: its link exists, its name
\* is in neither the store nor the routing daemon
C15_Witness ==
    /\ resp.op = "CreateVrf"
    /\ resp.calls = <<Did("LinkAdd", OK), Did("FrrCreate", AdapterError)>>
    /\ resp.code = AdapterError
    /\ PathBase(resp.in.Vrf.name) \in links
    /\ resp.in.Vrf.name \notin DOMAIN Vrfs
    /\ resp.in.Vrf.name \notin frr

VrfOps == {"CreateVrf", "UpdateVrf", "GetVrf", "ListVrfs"}

\* the VRF objects a finished call handed to its caller
ReturnedVrfs(r) ==
    (IF r.obj # NoObj THEN {r.obj} ELSE {}) \cup {r.page[i] : i \in 1..Len(r.page)}

\* C16 localAs is one fixed constant: every VRF object returned by a
\* successful CreateVrf, UpdateVrf, GetVrf or ListVrfs call carries the same
\* status.localAs; the stored objects are those Create and Update returned,
\* so each returned object agrees with every stored one.
C16_LocalAsFixed ==
    (resp.op \in VrfOps /\ resp.code = OK) =>
       \A o \in ReturnedVrfs(resp), n \in DOMAIN Vrfs :
          o.status.localAs = Vrfs[n].status.localAs

BridgeReadOps == {"GetLogicalBridge", "UpdateLogicalBridge"}

\* the name a Get or Update of a bridge asks for
BridgeTarget(r) == IF r.op = "GetLogicalBridge" THEN r.in.Name ELSE r.in.LogicalBridge.name

\* C17 (as stated) Bridge live-link check: every successful GetLogicalBridge
\* or UpdateLogicalBridge call has first looked the bridge's kernel link up
\* and found it.
C17_BridgeLinkChecked ==
    (resp.op \in BridgeReadOps /\ resp.code = OK) =>
       (resp.calls # <<>> /\ resp.calls[1] = Did("LinkByName", OK))

\* C17 (amended) Bridge live-link check: for a stored bridge whose stored
\* spec has a VNI, a successful Get or Update has first looked up the link
\* "vni<N>" and found it, and when that link is missing the call returns
\* NotFound and changes no store; for a stored bridge without a VNI the call
\* looks no link up and succeeds whatever the kernel holds.
C17_BridgeLinkCheckedIfVni ==
    [][ \A op \in BridgeReadOps :
           (IsCall(op) /\ BridgeTarget(resp') \in DOMAIN Bridges) =>
              LET vni == Bridges[BridgeTarget(resp')].spec.vni IN
              IF vni # NoVni
              THEN /\ resp'.code = OK =>
                         /\ resp'.calls # <<>>
                         /\ resp'.calls[1] = Did("LinkByName", OK)
                         /\ vxlanName(vni) \in links
                   /\ vxlanName(vni) \notin links =>
                         /\ resp'.code = NotFound
                         /\ StoresUnchanged
              ELSE /\ resp'.calls = <<>>
                   /\ resp'.code = OK ]_vars

\* an update of a stored bridge with a VNI is refused because its link
\* "vni<N>" is not in the kernel
C17_Witness ==
    /\ resp.op = "UpdateLogicalBridge"
    /\ resp.code = NotFound
    /\ resp.calls = <<Did("LinkByName", NotFound)>>
    /\ resp.in.LogicalBridge.name \in DOMAIN Bridges
    /\ Bridges[resp.in.LogicalBridge.name].spec.vni # NoVni
    /\ vxlanName(Bridges[resp.in.LogicalBridge.name].spec.vni) \notin links

\* C18 Key/name invariant: every object in the VRF store and in the bridge
\* store carries the name it is stored under, and that key has the form
\* "vrfs/<id>" or "bridges/<id>".
C18_KeyIsName ==
    /\ \A n \in DOMAIN Vrfs :
          /\ Vrfs[n].name = n
          /\ n = resourceIDToFullName(StrVrfs, PathBase(n))
    /\ \A n \in DOMAIN Bridges :
          /\ Bridges[n].name = n
          /\ n = resourceIDToFullName(StrBridges, PathBase(n))

\* an update has just replaced one of two stored VRFs under its own name
C18_Witness ==
    /\ resp.op = "UpdateVrf"
    /\ resp.code = OK
    /\ Cardinality(DOMAIN Vrfs) = 2
    /\ Vrfs[resp.in.Vrf.name] = resp.obj
    /\ resp.obj.name = resp.in.Vrf.name
    /\ Bridges # <<>>

ServiceOps ==
    {"CreateVrf", "DeleteVrf", "UpdateVrf", "GetVrf", "ListVrfs",
     "CreateLogicalBridge", "DeleteLogicalBridge", "UpdateLogicalBridge",
     "GetLogicalBridge", "ListLogicalBridges"}

\* C19 Errors leave the record untouched: a Create, Delete, Update, Get or
\* List call, of a VRF or of a bridge, that returns an error leaves the VRF
\* store, the bridge store and the token table exactly as they were.
C19_ErrorKeepsStores ==
    [][ \A op \in ServiceOps :
           (IsCall(op) /\ resp'.code # OK) => StoresUnchanged ]_vars

\* a delete has failed at the routing-daemon step: the link is gone and the
\* store entry is kept
C19_Witness ==
    /\ resp.op = "DeleteVrf"
    /\ resp.code = AdapterError
    /\ resp.calls = <<Did("LinkDel", OK), Did("FrrDelete", AdapterError)>>
    /\ resp.in.Name \in DOMAIN Vrfs
    /\ PathBase(resp.in.Name) \notin links

\* the store a List call reads
ListStore(op) == IF op = "ListVrfs" THEN Vrfs ELSE Bridges

\* C20 Token table only grows: no step removes a token or changes the offset
\* of a recorded one; the table changes only in a ListVrfs or
\* ListLogicalBridges call, which adds the one fresh token it returns, mapped
\* to offset + size; and a List call of either kind that carries a recorded
\* token succeeds with a page that starts at that token's offset.
C20_TokenTableGrows ==
    [][ /\ \A t \in DOMAIN Pagination :
              t \in DOMAIN Pagination' /\ Pagination'[t] = Pagination[t]
        /\ Pagination' # Pagination =>
              /\ \E op \in ListOps : IsCall(op)
              /\ resp'.token # NoToken
              /\ resp'.token \notin DOMAIN Pagination
              /\ DOMAIN Pagination' = DOMAIN Pagination \cup {resp'.token}
              /\ Pagination'[resp'.token] = OffsetOf(resp'.in) + SizeOf(resp'.in)
        /\ \A op \in ListOps :
              (IsCall(op) /\ resp'.in.PageToken \in DOMAIN Pagination) =>
                 /\ resp'.code = OK
                 /\ PageIs(resp'.page, ListStore(op), Ascending(ListStore(op)),
                           Pagination[resp'.in.PageToken])
      ]_vars

\* a bridge listing resumed from a recorded token has returned the second
\* bridge, with two tokens on record and both still resolvable
C20_Witness ==
    /\ resp.op = "ListLogicalBridges"
    /\ resp.code = OK
    /\ resp.in.PageToken \in DOMAIN Pagination
    /\ Pagination[resp.in.PageToken] = 1
    /\ Len(resp.page) = 1
    /\ Cardinality(DOMAIN Pagination) = 2
    /\ Cardinality(DOMAIN Vrfs) = 2

====
